---- MODULE Spec2Model ----
(***************************************************************************)
(* Sales dashboard (dashboard.py): the connection provider, the four       *)
(* cached warehouse queries with their pandas post-processing, and the     *)
(* script run (credential check, top-N controls, refresh button, tabs).    *)
(*                                                                         *)
(* Values.  A SQL / pandas value that may be NULL is a sequence of length  *)
(* at most one: <<>> is NULL, <<x>> is x.  A string is a sequence of       *)
(* one-character strings, so that TRIM and LOWER are computed.  A DOUBLE   *)
(* that comes from a division is a fraction [n, d] with d > 0.             *)
(***************************************************************************)
EXTENDS Integers, Sequences, FiniteSets

VARIABLES
    sales,          \* main.default.itens_venda_mm: a sequence of rows (a bag)
    catalog,        \* main.default.produtos_mm: a sequence of rows (a bag)
    creds,          \* the credentials os.getenv finds
    conn,           \* st.cache_resource of get_databricks_connection
    connAttempts,   \* how many times sql.connect was called
    connReported,   \* st.error("Erro ao conectar") was shown
    cache,          \* st.cache_data: per function, the stored results and their ages
    pc,             \* where the script run stands
    runKind,        \* what started the run: "event", "click" or "rerun"
    total_produtos, \* line 324
    top_n,          \* line 353
    lastCall,       \* the last call of a query operation and its outcome
    df_read,        \* line 169: the frame pd.read_sql returned to the ranking cleanup
    vega_data       \* line 389: the records handed to the chart of tab 1

vars == <<sales, catalog, creds, conn, connAttempts, connReported, cache,
          pc, runKind, total_produtos, top_n, lastCall, df_read, vega_data>>

chartVars == <<df_read, vega_data>>

----------------------------------------------------------------------------
(* Bounds of the model *)

MaxRows == 3        \* rows of the sales table
MaxCatalog == 2     \* rows of the catalog table
MaxTopN == 3        \* the largest N the controls are moved to
MaxVendaId == 4     \* the largest sale id
MaxAttempts == 3    \* cap on the count of connection attempts
MaxSeasonRows == 4  \* rows of the sales table read for the seasonality
MaxFrameRows == 2   \* rows of a frame given to the ranking cleanup

(* Program constants *)

TTL == 300              \* @st.cache_data(ttl=300)
FallbackTotal == 10     \* get_total_products' default
FallbackDays == 30      \* total_vendido / 30.0
RefYear == 2024         \* strftime('2024-%m')
Buckets == 12           \* * 12 ... % 12
MinTopN == 2            \* min_value=2
SliderCap == 50         \* min(total_produtos, 50)
InputCap == 100         \* min(total_produtos, 100)
MonthsPerYear == 12     \* format='%m'
FirstYear == 1900       \* the year strptime gives a date without one

----------------------------------------------------------------------------
(* NULL, strings, fractions *)

Null == <<>>
Some(x) == <<x>>
IsNull(v) == v = <<>>
Val(v) == v[1]

Range(s) == {s[i] : i \in DOMAIN s}
Min(a, b) == IF a <= b THEN a ELSE b

RECURSIVE LTrim(_)
LTrim(s) == IF s # <<>> /\ Head(s) = " " THEN LTrim(Tail(s)) ELSE s

RECURSIVE RTrim(_)
RTrim(s) ==
    IF s # <<>> /\ s[Len(s)] = " " THEN RTrim(SubSeq(s, 1, Len(s) - 1)) ELSE s

\* SQL TRIM: both ends, spaces only
Trim(s) == RTrim(LTrim(s))

LowerChar(c) == CASE c = "A" -> "a" [] c = "B" -> "b" [] c = "C" -> "c" [] OTHER -> c

\* SQL LOWER
Lower(s) == [i \in DOMAIN s |-> LowerChar(s[i])]

Frac(n, d) == [n |-> n, d |-> d]
FracEq(x, y) == x.n * y.d = y.n * x.d
FracPos(x) == x.n > 0

RECURSIVE SumOver(_, _)
SumOver(f, D) ==
    IF D = {} THEN 0
    ELSE LET i == CHOOSE j \in D : TRUE IN f[i] + SumOver(f, D \ {i})

\* The sequences that list n elements of S (all of S when it has fewer), largest
\* key first: SQL's ORDER BY k DESC LIMIT n, which breaks ties as it likes.
RECURSIVE TopSeqs(_, _)
TopSeqs(S, n) ==
    IF n = 0 \/ S = {} THEN {<<>>}
    ELSE UNION {{<<r>> \o t : t \in TopSeqs(S \ {r}, n - 1)} :
                r \in {x \in S : \A y \in S : y.k <= x.k}}

Strip(s) == [i \in DOMAIN s |-> s[i].r]

----------------------------------------------------------------------------
(* The tables.  A row of itens_venda_mm: descricaoProduto, qtde, valor,     *)
(* vendaId, un, data.  A date is [y, m, d].                                 *)

SaleRow(p, q, v, id, u, dt) ==
    [descricaoProduto |-> p, qtde |-> q, valor |-> v, vendaId |-> id, un |-> u,
     data |-> dt]

Rows(t) == DOMAIN t

\* Non-decreasing index sequences of length at most k over lo..n: the bags of
\* at most k rows of a pool of n rows.
RECURSIVE IndexBags(_, _, _)
IndexBags(k, lo, n) ==
    IF k = 0 THEN {<<>>}
    ELSE {<<>>} \cup UNION {{<<i>> \o s : s \in IndexBags(k - 1, i, n)} : i \in lo..n}

RECURSIVE SetToSeq(_)
SetToSeq(S) ==
    IF S = {} THEN <<>>
    ELSE LET x == CHOOSE y \in S : TRUE IN <<x>> \o SetToSeq(S \ {x})

TablesOver(pool, k) ==
    LET p == SetToSeq(pool)
    IN  {[i \in DOMAIN b |-> p[b[i]]] : b \in IndexBags(k, 1, Len(p))}

----------------------------------------------------------------------------
(* get_total_products: the query of lines 127-133 *)

\* WHERE descricaoProduto IS NOT NULL AND LENGTH(TRIM(descricaoProduto)) > 0
\* AND qtde > 0
RankingRows(t) ==
    {i \in Rows(t) : /\ ~IsNull(t[i].descricaoProduto)
                     /\ Len(Trim(Val(t[i].descricaoProduto))) > 0
                     /\ t[i].qtde > 0}

\* GROUP BY TRIM(descricaoProduto)
RankingGroups(t) == {Trim(Val(t[i].descricaoProduto)) : i \in RankingRows(t)}

\* COUNT(DISTINCT TRIM(descricaoProduto)); the frame always has its one row
TotalProductsQuery(t) == {Cardinality(RankingGroups(t))}

----------------------------------------------------------------------------
(* get_top_products: the query of lines 153-167 and lines 172-175 *)

GroupRows(t, g) ==
    {i \in RankingRows(t) : Trim(Val(t[i].descricaoProduto)) = g}

\* SUM(valor): NULL when every valor of the group is NULL
SumValor(t, D) ==
    LET nn == {i \in D : ~IsNull(t[i].valor)}
    IN  IF nn = {} THEN Null
        ELSE Some(SumOver([i \in nn |-> Val(t[i].valor)], nn))

\* One aggregated row per group; FIRST(un) is any unit of the group.
RankingRecords(t, g) ==
    LET D == GroupRows(t, g)
    IN  {[produto |-> Some(g),
          quantidade_total |-> Some(SumOver([i \in D |-> t[i].qtde], D)),
          num_vendas |-> Cardinality({t[i].vendaId : i \in D}),
          valor_total |-> SumValor(t, D),
          unidade |-> u] : u \in {t[i].un : i \in D}}

\* The aggregated tables: one record per group
RankingTables(t) ==
    LET G == RankingGroups(t)
    IN  {Range(f) : f \in {h \in [G -> UNION {RankingRecords(t, g) : g \in G}] :
                              \A g \in G : h[g] \in RankingRecords(t, g)}}

\* Variant: the query without its LIMIT
TopProductsQueryNoLimit(t, limit) ==
    UNION {{Strip(s) : s \in TopSeqs({[k |-> Val(r.quantidade_total), r |-> r] : r \in T},
                                      Cardinality(T))} : T \in RankingTables(t)}

\* ORDER BY quantidade_total DESC LIMIT {limit}
TopProductsQuery(t, limit) ==
    UNION {{Strip(s) : s \in TopSeqs({[k |-> Val(r.quantidade_total), r |-> r] : r \in T},
                                      limit)} : T \in RankingTables(t)}

\* A value of a numeric column as pd.read_sql hands it over: a number, or a
\* text.  A number is itself (all numbers of the model lie below TextBase);
\* TextBase + n, n > 0, is the text that reads as the number n ("12" for 12),
\* and TextBase a text that reads as no number ("x").
TextBase == 1000
NumericText == TextBase + 12
OtherText == TextBase

\* Variant: a coercion that puts 0 where no number can be read
ToNumericOrZero(v) ==
    IF IsNull(v) THEN Some(0)
    ELSE IF Val(v) < TextBase THEN v
    ELSE IF Val(v) > TextBase THEN Some(Val(v) - TextBase)
    ELSE Some(0)

\* pd.to_numeric(..., errors='coerce') on one value: a number stays, a text that
\* reads as a number becomes it, anything else becomes NaN
ToNumeric(v) ==
    IF IsNull(v) THEN Null
    ELSE IF Val(v) < TextBase THEN v
    ELSE IF Val(v) > TextBase THEN Some(Val(v) - TextBase)
    ELSE Null

\* lines 172-175
NormalizeTop(df) ==
    IF df = <<>> THEN df
    ELSE LET typed == [i \in DOMAIN df |->
                         [df[i] EXCEPT !.quantidade_total = ToNumeric(@),
                                       !.valor_total = ToNumeric(@)]]
         IN  SelectSeq(typed, LAMBDA r : ~IsNull(r.produto) /\ ~IsNull(r.quantidade_total))

TopProductsFrames(t, limit) == {NormalizeTop(df) : df \in TopProductsQuery(t, limit)}

\* lines 384-386: the text shown for valor_total, "-" when it is missing
ValorFormatado(v) == IF IsNull(v) THEN "-" ELSE <<"R$", Val(v)>>

\* lines 368-396: no chart for an empty frame; else dropna on produto and
\* quantidade_total, to_numeric and dropna on quantidade_total, the text of
\* valor_total, and the records of the rows left
Tab1Cleanup(produtos_top) ==
    IF produtos_top = <<>> THEN <<>>
    ELSE LET present == SelectSeq(produtos_top,
                            LAMBDA r : ~IsNull(r.produto) /\ ~IsNull(r.quantidade_total))
             typed == [i \in DOMAIN present |->
                          [present[i] EXCEPT !.quantidade_total = ToNumeric(@)]]
             clean == SelectSeq(typed, LAMBDA r : ~IsNull(r.quantidade_total))
         IN  [i \in DOMAIN clean |->
                [produto |-> clean[i].produto,
                 quantidade_total |-> clean[i].quantidade_total,
                 num_vendas |-> clean[i].num_vendas,
                 valor_total |-> clean[i].valor_total,
                 unidade |-> clean[i].unidade,
                 valor_total_formatado |-> ValorFormatado(clean[i].valor_total)]]

----------------------------------------------------------------------------
(* get_seasonality_data: the queries of lines 193-211 and 217-232, and the  *)
(* synthesis of months of lines 235-240                                     *)

\* WHERE descricaoProduto IS NOT NULL (the name is not trimmed here)
NamedRows(t) == {i \in Rows(t) : ~IsNull(t[i].descricaoProduto)}

RowsOf(t, D, p) == {i \in D : Val(t[i].descricaoProduto) = p}

NamesIn(t, D) == {Val(t[i].descricaoProduto) : i \in D}

QtdeSum(t, D) == SumOver([i \in D |-> t[i].qtde], D)

\* top_produtos of the primary query: ORDER BY SUM(qtde) DESC LIMIT {top_n}
TopBySum(t, D, n) ==
    {{x.r : x \in Range(s)} :
        s \in TopSeqs({[k |-> QtdeSum(t, RowsOf(t, D, p)), r |-> p] : p \in NamesIn(t, D)}, n)}

\* top_produtos of the fallback query: ORDER BY COUNT(*) DESC LIMIT {top_n}
TopByCount(t, D, n) ==
    {{x.r : x \in Range(s)} :
        s \in TopSeqs({[k |-> Cardinality(RowsOf(t, D, p)), r |-> p] : p \in NamesIn(t, D)}, n)}

\* Byte order of the characters, as the warehouse and pandas sort strings
CharRank(c) ==
    CASE c = " " -> 0 [] c = "A" -> 1 [] c = "B" -> 2 [] c = "C" -> 3
      [] c = "a" -> 4 [] c = "b" -> 5 [] c = "c" -> 6 [] OTHER -> 7

RECURSIVE StrLess(_, _)
StrLess(a, b) ==
    IF b = <<>> THEN FALSE
    ELSE IF a = <<>> THEN TRUE
    ELSE IF Head(a) = Head(b) THEN StrLess(Tail(a), Tail(b))
    ELSE CharRank(Head(a)) < CharRank(Head(b))

MesLess(a, b) == a.y < b.y \/ (a.y = b.y /\ a.m < b.m)

\* ORDER BY mes, produto
ByMesProduto(a, b) ==
    MesLess(a.mes, b.mes) \/ (a.mes = b.mes /\ StrLess(Val(a.produto), Val(b.produto)))

\* groupby(['produto', 'mes']) sorts by its keys
ByProdutoMes(a, b) ==
    StrLess(Val(a.produto), Val(b.produto))
        \/ (a.produto = b.produto /\ MesLess(a.mes, b.mes))

RECURSIVE SortMesProduto(_)
SortMesProduto(S) ==
    IF S = {} THEN <<>>
    ELSE LET x == CHOOSE y \in S : \A z \in S \ {y} : ByMesProduto(y, z)
         IN  <<x>> \o SortMesProduto(S \ {x})

RECURSIVE SortProdutoMes(_)
SortProdutoMes(S) ==
    IF S = {} THEN <<>>
    ELSE LET x == CHOOSE y \in S : \A z \in S \ {y} : ByProdutoMes(y, z)
         IN  <<x>> \o SortProdutoMes(S \ {x})

\* DATE_FORMAT(data, 'yyyy-MM')
DateFormatMonth(d) == [y |-> d.y, m |-> d.m]

\* One row per (produto, mes) of the rows D, each with its month key
MonthlySums(t, D, mesOf) ==
    {[produto |-> Some(p), mes |-> m,
      quantidade |-> QtdeSum(t, {i \in RowsOf(t, D, p) : mesOf[i] = m})] :
        <<p, m>> \in {<<Val(t[i].descricaoProduto), mesOf[i]>> : i \in D}}

\* lines 193-211, given the products top_produtos picked
SeasonalityPrimary(t, top) ==
    LET D == {i \in NamedRows(t) : /\ Val(t[i].descricaoProduto) \in top
                                   /\ ~IsNull(t[i].data)}
    IN  SortMesProduto(MonthlySums(t, D, [i \in D |-> DateFormatMonth(Val(t[i].data))]))

MaxOf(S) == CHOOSE x \in S : \A y \in S : y <= x

\* line 238: (vendaId / max_venda * 12).astype(int) % 12 + 1, sale ids positive
MesNum(id, max_venda) == (((id * Buckets) \div max_venda) % Buckets) + 1

\* Variant: strftime('%Y-%m'): the parsed date's own year
StrftimeOwnYear(dt) == [y |-> dt.y, m |-> dt.m]

\* line 239: pd.to_datetime(n, format='%m') parses a month of 1900 and raises
\* on anything else; strftime('2024-%m') keeps its month
ParseMonth(n) == IF n \in 1..MonthsPerYear THEN Some([y |-> FirstYear, m |-> n, d |-> 1]) ELSE Null
StrftimeRef(dt) == [y |-> RefYear, m |-> dt.m]


\* lines 217-240, given the products top_produtos picked: the frame, the months
\* synthesized per sale id, and whether line 239 raised
SeasonalityFallback(t, top) ==
    LET D == {i \in NamedRows(t) : Val(t[i].descricaoProduto) \in top}
        max_venda == MaxOf({t[i].vendaId : i \in D})
        mes_num == [i \in D |-> MesNum(t[i].vendaId, max_venda)]
        parsed == [i \in D |-> ParseMonth(mes_num[i])]
        mes == [i \in D |-> StrftimeRef(Val(parsed[i]))]
    IN  IF D = {} THEN [val |-> <<>>, synth |-> {}, raised |-> FALSE]
        ELSE IF \E i \in D : IsNull(parsed[i])
        THEN [val |-> <<>>, synth |-> {}, raised |-> TRUE]
        ELSE [val |-> SortProdutoMes(MonthlySums(t, D, mes)),
              synth |-> {[vendaId |-> t[i].vendaId, mes_num |-> mes_num[i],
                          mes |-> mes[i]] : i \in D},
              raised |-> FALSE]

\* What the body computes when neither query fails
SeasonalityFrames(t, n) ==
    LET primary == {SeasonalityPrimary(t, top) : top \in TopBySum(t, NamedRows(t), n)}
    IN  {[val |-> df, synth |-> {}, raised |-> FALSE, fallback |-> FALSE] :
            df \in primary \ {<<>>}}
        \cup {[val |-> o.val, synth |-> o.synth, raised |-> o.raised, fallback |-> TRUE] :
                o \in IF <<>> \in primary
                      THEN {SeasonalityFallback(t, top) :
                                top \in TopByCount(t, NamedRows(t), n)}
                      ELSE {}}

----------------------------------------------------------------------------
(* analyze_stock: the query of lines 257-303.  A row of produtos_mm: id,    *)
(* descricao, estoque, grupo, codigo_fab; id is the catalog's key and is    *)
(* never NULL in a stored row.  A timestamp is [y, m, d, h].                *)

CatalogRow(id, ds, e, g, c) ==
    [id |-> id, descricao |-> ds, estoque |-> e, grupo |-> g, codigo_fab |-> c]

\* The row a LEFT JOIN gives a sale that matches nothing
NullCatalogRow == CatalogRow(Null, Null, Null, Null, Null)

\* DATE(data)
DateOf(ts) == [y |-> ts.y, m |-> ts.m, d |-> ts.d]

\* WHERE descricaoProduto IS NOT NULL AND data IS NOT NULL
DatedRows(t) == {i \in NamedRows(t) : ~IsNull(t[i].data)}

\* lines 274-277
MediaVendaDia(total_vendido, dias_com_venda) ==
    IF dias_com_venda > 0 THEN Frac(total_vendido, dias_com_venda)
    ELSE Frac(total_vendido, FallbackDays)

\* One row of vendas_com_media_dia: GROUP BY descricaoProduto
VendasResumo(t, p) ==
    LET D == RowsOf(t, DatedRows(t), p)
        total_vendido == QtdeSum(t, D)
        dias_com_venda == Cardinality({DateOf(Val(t[i].data)) : i \in D})
    IN  [descricaoProduto |-> p,
         total_vendido |-> total_vendido,
         media_venda |-> Frac(total_vendido, Cardinality(D)),
         dias_com_venda |-> dias_com_venda,
         num_vendas |-> Cardinality({t[i].vendaId : i \in D}),
         media_venda_dia |-> MediaVendaDia(total_vendido, dias_com_venda)]

\* ORDER BY total_vendido DESC LIMIT {top_n}: the sets of rows it may keep
VendasTop(t, n) ==
    {{x.r : x \in Range(s)} :
        s \in TopSeqs({[k |-> VendasResumo(t, p).total_vendido, r |-> VendasResumo(t, p)] :
                          p \in NamesIn(t, DatedRows(t))}, n)}

\* Variant: the join without LOWER
JoinMatchesCaseSensitive(v, c) ==
    ~IsNull(c.descricao) /\ Trim(v.descricaoProduto) = Trim(Val(c.descricao))

\* ON LOWER(TRIM(v.descricaoProduto)) = LOWER(TRIM(p.descricao))
JoinMatches(v, c) ==
    ~IsNull(c.descricao) /\ Lower(Trim(v.descricaoProduto)) = Lower(Trim(Val(c.descricao)))

\* lines 286-289
StatusEstoque(p) == IF ~IsNull(p.id) THEN "Em Estoque" ELSE "Sem Estoque"

\* Variant: the division without the media_venda_dia > 0 guard
DiasEstoqueUnguarded(v, p) ==
    IF ~IsNull(p.id) /\ ~IsNull(p.estoque)
    THEN Some(Frac(Val(p.estoque) * v.media_venda_dia.d, v.media_venda_dia.n))
    ELSE Null

\* lines 294-298
DiasEstoque(v, p) ==
    IF ~IsNull(p.id) /\ ~IsNull(p.estoque) /\ FracPos(v.media_venda_dia)
    THEN Some(Frac(Val(p.estoque) * v.media_venda_dia.d, v.media_venda_dia.n))
    ELSE Null

\* lines 280-298: the SELECT list over one joined pair
StockRecord(v, p) ==
    [produto |-> Some(v.descricaoProduto),
     total_vendido |-> v.total_vendido,
     media_venda |-> v.media_venda,
     media_venda_dia |-> v.media_venda_dia,
     num_vendas |-> v.num_vendas,
     status_estoque |-> StatusEstoque(p),
     descricao_cadastro |-> p.descricao,
     quantidade_estoque |-> p.estoque,
     grupo |-> p.grupo,
     codigo_fab |-> p.codigo_fab,
     dias_estoque |-> DiasEstoque(v, p)]

\* LEFT JOIN: a sale row per catalog row it matches, or once with NULLs; j tells
\* the joined pairs apart
LeftJoin(V, cat) ==
    UNION {LET M == {j \in Rows(cat) : JoinMatches(v, cat[j])}
           IN  IF M = {} THEN {[k |-> v.total_vendido, j |-> 0, r |-> StockRecord(v, NullCatalogRow)]}
               ELSE {[k |-> v.total_vendido, j |-> j, r |-> StockRecord(v, cat[j])] : j \in M} :
           v \in V}

\* ORDER BY v.total_vendido DESC
StockFrames(t, cat, n) ==
    UNION {LET J == LeftJoin(V, cat)
           IN  {Strip(s) : s \in TopSeqs(J, Cardinality(J))} : V \in VendasTop(t, n)}

----------------------------------------------------------------------------
(* The four query operations behind @st.cache_data(ttl=300), and the       *)
(* connection behind @st.cache_resource                                    *)

Ops == {"get_total_products", "get_top_products", "get_seasonality_data", "analyze_stock"}

AllCreds == {"DATABRICKS_HOSTNAME", "DATABRICKS_HTTP_PATH", "DATABRICKS_ACCESS_TOKEN"}

\* The clock moves in steps of half the ttl
TickLen == TTL \div 2

\* What each operation returns when it has no data: 10, or pd.DataFrame()
Default(f) == IF f = "get_total_products" THEN FallbackTotal ELSE <<>>

\* if not connection: return <default>
NoConnection(f) ==
    [val |-> Default(f), issued |-> FALSE, failed |-> FALSE, reported |-> FALSE,
     escaped |-> FALSE, synth |-> {}, fallback |-> FALSE]

\* Variant: an except clause that lets the exception go on
OnExceptionEscapes(f) ==
    [val |-> Default(f), issued |-> TRUE, failed |-> TRUE, reported |-> FALSE,
     escaped |-> TRUE, synth |-> {}, fallback |-> FALSE]

\* except Exception as e: st.error(...); return <default>
OnException(f) ==
    [val |-> Default(f), issued |-> TRUE, failed |-> TRUE, reported |-> TRUE,
     escaped |-> FALSE, synth |-> {}, fallback |-> FALSE]

Returned(v) ==
    [val |-> v, issued |-> TRUE, failed |-> FALSE, reported |-> FALSE,
     escaped |-> FALSE, synth |-> {}, fallback |-> FALSE]

\* The try block of each operation when no statement of it raises
TryBlock(f, arg) ==
    CASE f = "get_total_products" -> {Returned(n) : n \in TotalProductsQuery(sales)}
      [] f = "get_top_products" -> {Returned(df) : df \in TopProductsFrames(sales, arg)}
      [] f = "get_seasonality_data" ->
            {IF o.raised THEN OnException(f)
             ELSE [Returned(o.val) EXCEPT !.synth = o.synth, !.fallback = o.fallback] :
                o \in SeasonalityFrames(sales, arg)}
      [] f = "analyze_stock" -> {Returned(df) : df \in StockFrames(sales, catalog, arg)}

\* The body of an operation, given what get_databricks_connection returned: a
\* statement sent to the warehouse may raise at any time
Body(f, arg, connection) ==
    IF connection # "ok" THEN {NoConnection(f)}
    ELSE {OnException(f)} \cup TryBlock(f, arg)

\* Variant: a provider that keeps a connection but not a failure
ConnectionStoredUnlessNone == conn = "ok"

\* st.cache_resource keeps whatever the first call returned, None included
ConnectionStored == conn # "unset"

\* get_databricks_connection(): lines 105-116
get_databricks_connection(c) ==
    IF ConnectionStored
    THEN c = conn /\ UNCHANGED <<conn, connAttempts, connReported>>
    ELSE /\ c \in {"ok", "none"}
         /\ connAttempts < MaxAttempts
         /\ conn' = c
         /\ connAttempts' = connAttempts + 1
         /\ connReported' = (connReported \/ c = "none")

\* Variant: an entry still served at the age of the ttl
FreshAtTTL(e) == e.age <= TTL

\* An entry of st.cache_data is served while it is younger than the ttl
Fresh(e) == e.age < TTL

NoCall ==
    [f |-> "none", arg |-> 0, hit |-> FALSE, age |-> 0, val |-> <<>>, issued |-> FALSE,
     failed |-> FALSE, reported |-> FALSE, escaped |-> FALSE, synth |-> {},
     fallback |-> FALSE, connection |-> "unset", prior |-> {}]

\* A call of a cached operation: the stored result, or the body and a new entry
CachedCall(f, arg) ==
    LET prior == {e \in cache[f] : e.arg = arg}
        stored == {e \in prior : Fresh(e)}
    IN  IF stored # {}
        THEN /\ \E e \in stored :
                    lastCall' = [NoCall EXCEPT !.f = f, !.arg = arg, !.hit = TRUE,
                                               !.age = e.age, !.val = e.val,
                                               !.connection = conn, !.prior = prior]
             /\ UNCHANGED <<conn, connAttempts, connReported, cache>>
        ELSE \E c \in {"ok", "none"} :
                /\ get_databricks_connection(c)
                /\ \E o \in Body(f, arg, c) :
                    /\ lastCall' = [f |-> f, arg |-> arg, hit |-> FALSE, age |-> 0,
                                    val |-> o.val, issued |-> o.issued, failed |-> o.failed,
                                    reported |-> o.reported, escaped |-> o.escaped,
                                    synth |-> o.synth, fallback |-> o.fallback,
                                    connection |-> c, prior |-> prior]
                    /\ cache' = IF o.escaped THEN cache
                                ELSE [cache EXCEPT ![f] =
                                        {e \in @ : e.arg # arg /\ Fresh(e)}
                                            \cup {[arg |-> arg, val |-> o.val, age |-> 0]}]

\* st.cache_data before anything was stored
EmptyCache == [f \in Ops |-> {}]

\* Variant: a refresh that clears one operation's results only
ClearedTotalOnly == [cache EXCEPT !["get_total_products"] = {}]

\* st.cache_data.clear()
ClearedCache == EmptyCache

----------------------------------------------------------------------------
(* The script run: lines 89-103, 324-353 and the three tabs *)

Resting == {"idle", "stopped", "crashed", "done"}

\* A user event (or the first load) starts a run; the refresh button can be
\* clicked only where the last run drew it
StartRun ==
    /\ pc \in Resting
    /\ pc' = "start"
    /\ runKind' \in (IF pc = "done" THEN {"event", "click"} ELSE {"event"})
    /\ UNCHANGED <<sales, catalog, creds, conn, connAttempts, connReported, cache,
                   total_produtos, top_n, lastCall>>
    /\ vega_data' = <<>>
    /\ UNCHANGED df_read

\* Variant: any([...]) for all([...])
CredentialsAny == creds # {}

\* lines 89-103: if not all([...]): st.error(...); st.stop()
CredentialsLoaded == creds = AllCreds

CheckCredentials ==
    /\ pc = "start"
    /\ pc' = IF CredentialsLoaded THEN "total" ELSE "stopped"
    /\ UNCHANGED <<sales, catalog, creds, conn, connAttempts, connReported, cache,
                   runKind, total_produtos, top_n, lastCall>>
    /\ UNCHANGED chartVars

\* line 324: total_produtos = get_total_products()
TotalProducts ==
    /\ pc = "total"
    /\ CachedCall("get_total_products", 0)
    /\ total_produtos' = IF lastCall'.escaped THEN total_produtos ELSE lastCall'.val
    /\ pc' = IF lastCall'.escaped THEN "crashed" ELSE "controls"
    /\ UNCHANGED <<sales, catalog, creds, runKind, top_n>>
    /\ UNCHANGED chartVars

\* lines 329-345: the values the two controls can hold
SliderRange == MinTopN .. Min(total_produtos, SliderCap)
InputRange == MinTopN .. Min(total_produtos, InputCap)

\* lines 329-345 and 353; a control whose range is empty raises
Controls ==
    /\ pc = "controls"
    /\ IF SliderRange = {} \/ InputRange = {}
       THEN pc' = "crashed" /\ top_n' = top_n
       ELSE /\ \E top_n_slider \in SliderRange, top_n_input \in InputRange :
                /\ top_n_input <= MaxTopN
                /\ top_n' = IF top_n_input # top_n_slider THEN top_n_input
                            ELSE top_n_slider
            /\ pc' = "button"
    /\ UNCHANGED <<sales, catalog, creds, conn, connAttempts, connReported, cache,
                   runKind, total_produtos, lastCall>>
    /\ UNCHANGED chartVars

\* lines 347-350: st.cache_data.clear(); st.rerun()
Refresh ==
    /\ pc = "button"
    /\ runKind = "click"
    /\ cache' = ClearedCache
    /\ runKind' = "rerun"
    /\ pc' = "start"
    /\ UNCHANGED <<sales, catalog, creds, conn, connAttempts, connReported,
                   total_produtos, top_n, lastCall>>
    /\ UNCHANGED chartVars

NoRefresh ==
    /\ pc = "button"
    /\ runKind # "click"
    /\ pc' = "tab1"
    /\ UNCHANGED <<sales, catalog, creds, conn, connAttempts, connReported, cache,
                   runKind, total_produtos, top_n, lastCall>>
    /\ UNCHANGED chartVars

\* lines 366-396
Tab1 ==
    /\ pc = "tab1"
    /\ CachedCall("get_top_products", top_n)
    /\ pc' = IF lastCall'.escaped THEN "crashed" ELSE "tab2"
    /\ UNCHANGED <<sales, catalog, creds, runKind, total_produtos, top_n>>
    /\ vega_data' = IF lastCall'.escaped THEN <<>> ELSE Tab1Cleanup(lastCall'.val)
    /\ UNCHANGED df_read

\* line 474
Tab2 ==
    /\ pc = "tab2"
    /\ CachedCall("get_seasonality_data", top_n)
    /\ pc' = IF lastCall'.escaped THEN "crashed" ELSE "tab3"
    /\ UNCHANGED <<sales, catalog, creds, runKind, total_produtos, top_n>>
    /\ UNCHANGED chartVars

\* line 537
Tab3 ==
    /\ pc = "tab3"
    /\ CachedCall("analyze_stock", top_n)
    /\ pc' = IF lastCall'.escaped THEN "crashed" ELSE "done"
    /\ UNCHANGED <<sales, catalog, creds, runKind, total_produtos, top_n>>
    /\ UNCHANGED chartVars

(* The environment *)

\* Time passes between two runs.  An entry's age stops counting at the ttl:
\* from there on it is expired, and stays so until a store removes it.
Tick ==
    /\ pc \in Resting
    /\ cache' = [f \in Ops |-> {[e EXCEPT !.age = Min(e.age + TickLen, TTL)] : e \in cache[f]}]
    /\ cache' # cache
    /\ UNCHANGED <<sales, catalog, creds, conn, connAttempts, connReported,
                   pc, runKind, total_produtos, top_n, lastCall>>
    /\ UNCHANGED chartVars

\* config.env gains a credential between two runs (load_dotenv, line 11)
ConfigWritten ==
    /\ pc \in Resting
    /\ \E k \in AllCreds \ creds : creds' = creds \cup {k}
    /\ UNCHANGED <<sales, catalog, conn, connAttempts, connReported, cache,
                   pc, runKind, total_produtos, top_n, lastCall>>
    /\ UNCHANGED chartVars

----------------------------------------------------------------------------
(* The contents the tables are drawn from *)

NameA == <<"a">>
NameAPad == <<" ", "a">>
NameAUp == <<" ", "A">>
NameB == <<"b">>
NameC == <<"c">>
Blank == <<" ">>

Day1 == [y |-> 2023, m |-> 5, d |-> 1, h |-> 0]
Day1Late == [y |-> 2023, m |-> 5, d |-> 1, h |-> 9]
Day2 == [y |-> 2023, m |-> 6, d |-> 2, h |-> 0]

\* Ranking: names that differ only by padding, a blank name, quantities of 0
RankPool ==
    {SaleRow(p, q, Some(7), 1, "un", Null) :
        p \in {Some(NameA), Some(NameAPad), Some(NameB), Some(NameC), Some(Blank), Null},
        q \in {0, 20, 30, 50}}
    \cup {SaleRow(Some(NameC), 20, Null, 2, "kg", Null)}

\* Seasonality: undated sales over all sale ids, and a few dated ones
SeasonPool ==
    {SaleRow(Some(p), 1, Some(7), id, "un", Null) :
        p \in {NameA, NameB}, id \in 1..MaxVendaId}
    \cup {SaleRow(Some(NameC), 3, Some(7), 1, "un", Null),
          SaleRow(Some(NameB), 3, Some(7), 2, "un", Null),
          SaleRow(Null, 1, Some(7), 1, "un", Null),
          SaleRow(Some(NameA), 1, Some(7), 1, "un", Some(Day1)),
          SaleRow(Some(NameA), 1, Some(7), 2, "un", Some(Day2)),
          SaleRow(Some(NameB), 3, Some(7), 1, "un", Some(Day1))}

\* Stock: a return (a negative quantity), an undated sale, two sales on one day
StockPool ==
    {SaleRow(Some(NameA), 90, Some(7), 1, "un", dt) :
        dt \in {Null, Some(Day1), Some(Day1Late), Some(Day2)}}
    \cup {SaleRow(Some(NameA), -90, Some(7), 1, "un", Some(Day1)),
          SaleRow(Some(NameAUp), 90, Some(7), 1, "un", Some(Day1)),
          SaleRow(Some(NameAUp), 90, Some(7), 1, "un", Some(Day2)),
          SaleRow(Some(NameB), 90, Some(7), 2, "un", Some(Day1)),
          SaleRow(Null, 90, Some(7), 2, "un", Some(Day1))}

\* Catalog rows before their ids: a description is a name in another case and
\* padding, or NULL; a stock may be NULL
CatalogPool ==
    {CatalogRow(Null, Some(<<"A", " ">>), Some(6), Some("g"), Some("f")),
     CatalogRow(Null, Some(<<"A", " ">>), Null, Some("g"), Some("f")),
     CatalogRow(Null, Null, Some(6), Some("g"), Some("f"))}

\* Each stored row gets its own id
CatalogTables(k) ==
    {[i \in DOMAIN t |-> [t[i] EXCEPT !.id = Some(i)]] : t \in TablesOver(CatalogPool, k)}

\* The tables the running dashboard reads; they keep their content while it runs
SeedSalesA ==
    <<SaleRow(Some(NameA), 50, Some(7), 1, "un", Some(Day1)),
      SaleRow(Some(NameB), 30, Some(7), 2, "un", Some(Day2)),
      SaleRow(Some(NameC), 20, Null, 3, "kg", Null)>>
SeedSalesB ==
    <<SaleRow(Some(NameAPad), 20, Some(7), 1, "un", Null),
      SaleRow(Some(NameB), 30, Some(7), 4, "un", Null)>>
\* A table of one product, and an empty one: their counts are below MinTopN
SeedSalesOne == <<SaleRow(Some(NameA), 50, Some(7), 1, "un", Some(Day1))>>
SeedSalesNone == <<>>
SeedSales == {SeedSalesA, SeedSalesB, SeedSalesOne, SeedSalesNone}
SeedCatalog ==
    <<CatalogRow(Some(1), Some(<<"A", " ">>), Some(6), Some("g"), Some("f"))>>

----------------------------------------------------------------------------
(* The running dashboard *)

ProcessStart ==
    /\ conn = "unset"
    /\ connAttempts = 0
    /\ connReported = FALSE
    /\ cache = EmptyCache
    /\ pc = "idle"
    /\ runKind = "event"
    /\ total_produtos = 0
    /\ top_n = 0
    /\ lastCall = NoCall
    /\ df_read = <<>>
    /\ vega_data = <<>>

Init ==
    /\ sales \in SeedSales
    /\ catalog = SeedCatalog
    /\ creds \in SUBSET AllCreds
    /\ ProcessStart

Next ==
    \/ StartRun
    \/ CheckCredentials
    \/ TotalProducts
    \/ Controls
    \/ Refresh
    \/ NoRefresh
    \/ Tab1
    \/ Tab2
    \/ Tab3
    \/ Tick
    \/ ConfigWritten

Spec == Init /\ [][Next]_vars

----------------------------------------------------------------------------
(* The query operations applied to every content of the tables: a process   *)
(* that holds its credentials and its connection calls one operation with   *)
(* the N its controls hold.                                          *)

Connected ==
    /\ creds = AllCreds
    /\ conn = "ok"
    /\ connAttempts = 1
    /\ connReported = FALSE
    /\ cache = EmptyCache
    /\ pc = "idle"
    /\ runKind = "event"
    /\ total_produtos = 0
    /\ top_n \in MinTopN..MaxTopN
    /\ lastCall = NoCall
    /\ df_read = <<>>
    /\ vega_data = <<>>

Apply(f) ==
    /\ CachedCall(f, top_n)
    /\ UNCHANGED <<sales, catalog, creds, pc, runKind, total_produtos, top_n>>
    /\ UNCHANGED chartVars

ApplyTopProducts == Apply("get_top_products")
ApplySeasonality == Apply("get_seasonality_data")
ApplyStock == Apply("analyze_stock")

InitRank == sales \in TablesOver(RankPool, MaxRows) /\ catalog = <<>> /\ Connected
SpecRank == InitRank /\ [][ApplyTopProducts]_vars

InitSeason == sales \in TablesOver(SeasonPool, MaxSeasonRows) /\ catalog = <<>> /\ Connected
SpecSeason == InitSeason /\ [][ApplySeasonality]_vars

\* The ranking cleanup applied to every frame pd.read_sql can hand to it: a
\* name or NULL, and in each numeric column a number, a text that reads as a
\* number, a text that does not, or NULL
FrameRows ==
    {[produto |-> p, quantidade_total |-> q, num_vendas |-> 1, valor_total |-> v,
      unidade |-> "un"] :
        p \in {Some(NameA), Null},
        q \in {Some(50), Some(NumericText), Some(OtherText), Null},
        v \in {Some(7), Some(NumericText), Some(OtherText), Null}}

Frames == UNION {[1..n -> FrameRows] : n \in 0..MaxFrameRows}

\* lines 169-177 and 366-396 on the frame read
CleanRanking ==
    /\ pc = "tab1"
    /\ vega_data' = Tab1Cleanup(NormalizeTop(df_read))
    /\ pc' = "tab2"
    /\ UNCHANGED <<sales, catalog, creds, conn, connAttempts, connReported, cache,
                   runKind, total_produtos, top_n, lastCall, df_read>>

InitClean ==
    /\ sales = <<>> /\ catalog = <<>>
    /\ creds = AllCreds
    /\ conn = "ok" /\ connAttempts = 1 /\ connReported = FALSE
    /\ cache = EmptyCache
    /\ pc = "tab1"
    /\ runKind = "event"
    /\ total_produtos = FallbackTotal
    /\ top_n = MinTopN
    /\ lastCall = NoCall
    /\ df_read \in Frames
    /\ vega_data = <<>>
SpecClean == InitClean /\ [][CleanRanking]_vars

InitStock ==
    /\ sales \in TablesOver(StockPool, MaxRows)
    /\ catalog \in CatalogTables(MaxCatalog)
    /\ Connected
SpecStock == InitStock /\ [][ApplyStock]_vars

----------------------------------------------------------------------------
(* Properties of the query operations *)

\* The last call ran its query and the warehouse answered it
Answered == ~lastCall.hit /\ lastCall.issued /\ ~lastCall.failed

\* The sales table holds three products, one row each, of quantities 50, 30, 20
ThreeProducts ==
    /\ Len(sales) = 3
    /\ {sales[i].qtde : i \in 1..3} = {50, 30, 20}
    /\ \A i \in 1..3 : ~IsNull(sales[i].descricaoProduto)
                       /\ Trim(Val(sales[i].descricaoProduto)) # <<>>
    /\ \A i, j \in 1..3 :
        i # j => Trim(Val(sales[i].descricaoProduto)) # Trim(Val(sales[j].descricaoProduto))

NameOfQtde(q) ==
    Trim(Val(sales[CHOOSE i \in 1..3 : sales[i].qtde = q].descricaoProduto))

\* C1: get_top_products(N) returns at most N records, ordered by total quantity
\* descending, no product name in two records; with three products of quantities
\* 50, 30, 20 and N = 2 it returns the 50 and the 30 product in that order.
C1_TopProducts ==
    lastCall.f = "get_top_products" =>
        LET df == lastCall.val
        IN  /\ Len(df) <= lastCall.arg
            /\ \A i, j \in DOMAIN df :
                i < j => /\ Val(df[i].quantidade_total) >= Val(df[j].quantidade_total)
                         /\ df[i].produto # df[j].produto
            /\ (ThreeProducts /\ lastCall.arg = 2 /\ Answered) =>
                    /\ Len(df) = 2
                    /\ df[1].produto = Some(NameOfQtde(50))
                    /\ Val(df[1].quantidade_total) = 50
                    /\ df[2].produto = Some(NameOfQtde(30))
                    /\ Val(df[2].quantidade_total) = 30

C1_Witness ==
    /\ lastCall.f = "get_top_products"
    /\ Answered
    /\ ThreeProducts
    /\ lastCall.arg = 2
    /\ Len(lastCall.val) = 2

\* The catalog holds a row whose trimmed, lower-cased description is the
\* trimmed, lower-cased name
InCatalog(name) ==
    \E j \in DOMAIN catalog :
        /\ ~IsNull(catalog[j].descricao)
        /\ Lower(Trim(Val(catalog[j].descricao))) = Lower(Trim(name))

\* C2: a record of analyze_stock is 'Em Estoque' if and only if the catalog holds
\* a row whose trimmed, lower-cased description equals the record's trimmed,
\* lower-cased product name; otherwise it is 'Sem Estoque'.
C2_StatusIffCatalogMatch ==
    lastCall.f = "analyze_stock" =>
        \A r \in Range(lastCall.val) :
            /\ r.status_estoque \in {"Em Estoque", "Sem Estoque"}
            /\ r.status_estoque = "Em Estoque" <=> InCatalog(Val(r.produto))

C2_Witness ==
    /\ lastCall.f = "analyze_stock"
    /\ \E r \in Range(lastCall.val) :
        /\ r.status_estoque = "Em Estoque"
        /\ r.descricao_cadastro # r.produto
    /\ \E r \in Range(lastCall.val) : r.status_estoque = "Sem Estoque"

\* C3: dias_estoque is null whenever the per-day average is <= 0 or the stock
\* quantity is absent, and otherwise equals stock quantity / per-day average.
C3_DiasEstoque ==
    lastCall.f = "analyze_stock" =>
        \A r \in Range(lastCall.val) :
            IF r.media_venda_dia.n <= 0 \/ IsNull(r.quantidade_estoque)
            THEN IsNull(r.dias_estoque)
            ELSE /\ ~IsNull(r.dias_estoque)
                 /\ Val(r.dias_estoque).d > 0
                 /\ Val(r.dias_estoque).n * r.media_venda_dia.n
                        = Val(r.quantidade_estoque) * r.media_venda_dia.d * Val(r.dias_estoque).d

C3_Witness ==
    /\ lastCall.f = "analyze_stock"
    /\ \E r \in Range(lastCall.val) :
        r.media_venda_dia.n <= 0 /\ ~IsNull(r.quantidade_estoque) /\ IsNull(r.dias_estoque)
    /\ \E r \in Range(lastCall.val) :
        IsNull(r.quantidade_estoque) /\ r.status_estoque = "Em Estoque"
    /\ \E r \in Range(lastCall.val) :
        ~IsNull(r.dias_estoque) /\ r.media_venda_dia.d = 2

\* The rows of a product, its distinct sale days and its total
SalesOf(p) == {i \in DOMAIN sales : sales[i].descricaoProduto = Some(p)}
SaleDays(p) ==
    {<<Val(sales[i].data).y, Val(sales[i].data).m, Val(sales[i].data).d>> :
        i \in {k \in SalesOf(p) : ~IsNull(sales[k].data)}}
TotalSold(p) == SumOver([i \in SalesOf(p) |-> sales[i].qtde], SalesOf(p))
SoldProducts == {Val(sales[i].descricaoProduto) :
                    i \in {k \in DOMAIN sales : ~IsNull(sales[k].descricaoProduto)}}

\* The first half of C4: the per-day average of a record is its total sold over
\* the product's distinct sale days, or over 30 when there are none.
AveragePerDay ==
    \A r \in Range(lastCall.val) :
        LET days == Cardinality(SaleDays(Val(r.produto)))
        IN  r.media_venda_dia.d > 0
            /\ r.media_venda_dia.n * (IF days > 0 THEN days ELSE 30)
                    = r.total_vendido * r.media_venda_dia.d

\* C4: the per-day average is total sold / distinct sale days when that number is
\* > 0 and total sold / 30 otherwise; a product sold on 0 distinct days with
\* total sold 90 appears in the result with per-day average 3.
C4_AveragePerDayWithFallback ==
    (lastCall.f = "analyze_stock" /\ Answered) =>
        /\ AveragePerDay
        /\ \A p \in SoldProducts :
            (SaleDays(p) = {} /\ TotalSold(p) = 90
                    /\ Cardinality(SoldProducts) <= lastCall.arg) =>
                \E r \in Range(lastCall.val) :
                    r.produto = Some(p) /\ r.media_venda_dia.n = 3 * r.media_venda_dia.d

\* C5: in the fallback every sale id gets the bucket floor(id / maxId * 12) mod 12
\* + 1, which lies in 1..12; every month key is a month of 2024; the bucket of an
\* id depends on the set of sale ids alone.
C5_SeasonalityFallback ==
    (lastCall.f = "get_seasonality_data" /\ lastCall.fallback) =>
        LET ids == {x.vendaId : x \in lastCall.synth}
            maxId == CHOOSE m \in ids : \A i \in ids : i <= m
        IN  /\ \A x \in lastCall.synth :
                /\ x.mes_num = (((x.vendaId * 12) \div maxId) % 12) + 1
                /\ x.mes_num \in 1..12
                /\ x.mes = [y |-> 2024, m |-> x.mes_num]
            /\ \A r \in Range(lastCall.val) :
                /\ r.mes.y = 2024 /\ r.mes.m \in 1..12
                /\ \E x \in lastCall.synth : x.mes = r.mes
            /\ lastCall.val # <<>> <=> lastCall.synth # {}

C5_Witness ==
    /\ lastCall.f = "get_seasonality_data"
    /\ lastCall.fallback
    /\ Cardinality({x.mes_num : x \in lastCall.synth}) = 3
    /\ \E x \in lastCall.synth : x.vendaId > 1 /\ x.mes_num = 1
    /\ Len(lastCall.val) = 3

\* The sets of N products with the largest total quantity sold (all the
\* products when there are fewer than N)
LargestByQuantity(n) ==
    {T \in SUBSET SoldProducts :
        /\ Cardinality(T) = Min(n, Cardinality(SoldProducts))
        /\ \A p \in T, q \in SoldProducts \ T : TotalSold(p) >= TotalSold(q)}

SeasonProducts == {Val(r.produto) : r \in Range(lastCall.val)}

\* The products of the result are among the N products of largest total quantity
AmongLargestByQuantity ==
    \E T \in LargestByQuantity(lastCall.arg) : SeasonProducts \subseteq T

\* One row per (product, month) pair
OneRowPerProductMonth ==
    \A i, j \in DOMAIN lastCall.val :
        i # j => <<lastCall.val[i].produto, lastCall.val[i].mes>>
                    # <<lastCall.val[j].produto, lastCall.val[j].mes>>

\* Every row stands for a sale of its product in its month: a dated sale of that
\* month, or in the fallback a sale whose id was given that month
MonthHasSale ==
    \A r \in Range(lastCall.val) :
        \E i \in SalesOf(Val(r.produto)) :
            IF lastCall.fallback
            THEN \E x \in lastCall.synth : x.vendaId = sales[i].vendaId /\ x.mes = r.mes
            ELSE ~IsNull(sales[i].data)
                    /\ r.mes = [y |-> Val(sales[i].data).y, m |-> Val(sales[i].data).m]

\* The part of C11 on the rows: one per (product, month), none for a month
\* without a sale of the product, in the date-based result and in the fallback
SeasonalityRows ==
    (lastCall.f = "get_seasonality_data" /\ Answered) =>
        OneRowPerProductMonth /\ MonthHasSale

\* The part of C11 on the products, for the date-based result
SeasonalityPrimaryProducts ==
    (lastCall.f = "get_seasonality_data" /\ Answered /\ ~lastCall.fallback) =>
        AmongLargestByQuantity

SeasonalityPrimaryReached ==
    /\ lastCall.f = "get_seasonality_data" /\ Answered /\ ~lastCall.fallback
    /\ Cardinality(SoldProducts) > lastCall.arg
    /\ Len(lastCall.val) >= 2

\* C11: the products in the result of get_seasonality_data(N) are among the N
\* products with the largest total quantity sold, with one row per (product,
\* month) pair and no row for a month in which the product has no sales, both
\* when the date-based query returns rows and when the sale-id fallback is used.
C11_SeasonalityTopProducts ==
    (lastCall.f = "get_seasonality_data" /\ Answered) =>
        /\ AmongLargestByQuantity
        /\ OneRowPerProductMonth
        /\ MonthHasSale


\* The number a value of a numeric column stands for, if any
Reads(v) == ~IsNull(v) /\ Val(v) # OtherText
NumberOf(v) == IF Val(v) < TextBase THEN Val(v) ELSE Val(v) - TextBase

\* A value that is there and fails numeric coercion
FailsCoercion(v) == ~IsNull(v) /\ ~Reads(v)

\* The name and the total quantity are there and the quantity reads as a number
RequiredOk(r) == ~IsNull(r.produto) /\ Reads(r.quantidade_total)

\* The ranking cleanup has acted on the frame read
Cleaned == pc = "tab2"

\* The records of the chart are the rows of `rows`, in their order, each with
\* its name and the number of its total quantity
ChartIs(rows) ==
    /\ Len(vega_data) = Len(rows)
    /\ \A i \in DOMAIN rows :
        /\ vega_data[i].produto = rows[i].produto
        /\ vega_data[i].quantidade_total = Some(NumberOf(rows[i].quantidade_total))

\* No value of the chart is a zero put in the place of a missing one
NoZeroFill ==
    \A i \in DOMAIN vega_data :
        /\ vega_data[i].quantidade_total # Some(0)
        /\ vega_data[i].valor_total # Some(0)

RecordsOf(p) == {i \in DOMAIN lastCall.val : lastCall.val[i].produto = p}

\* The part of C14 on the products: at most N of them are in the result
AtMostNProducts ==
    lastCall.f = "analyze_stock" =>
        Cardinality({r.produto : r \in Range(lastCall.val)}) <= lastCall.arg

\* The part of C14 on a product with no matching catalog row: one record,
\* 'Sem Estoque', every catalog-derived field null
UnmatchedProducts ==
    lastCall.f = "analyze_stock" =>
        \A r \in Range(lastCall.val) :
            ~InCatalog(Val(r.produto)) =>
                /\ Cardinality(RecordsOf(r.produto)) = 1
                /\ r.status_estoque = "Sem Estoque"
                /\ IsNull(r.descricao_cadastro) /\ IsNull(r.quantidade_estoque)
                /\ IsNull(r.grupo) /\ IsNull(r.codigo_fab) /\ IsNull(r.dias_estoque)

UnmatchedReached ==
    /\ lastCall.f = "analyze_stock"
    /\ Len(lastCall.val) = 3
    /\ \E r \in Range(lastCall.val) : ~InCatalog(Val(r.produto))
    /\ \E r \in Range(lastCall.val) : InCatalog(Val(r.produto))

\* C14: analyze_stock(N) returns at most N records and no sales product is in
\* more than one record; a sales product with no matching catalog row yields
\* exactly one record, 'Sem Estoque', with description, stock quantity, group,
\* manufacturer code and days of stock null.
C14_OneRecordPerProduct ==
    lastCall.f = "analyze_stock" =>
        /\ Len(lastCall.val) <= lastCall.arg
        /\ \A r \in Range(lastCall.val) : Cardinality(RecordsOf(r.produto)) = 1
        /\ UnmatchedProducts

----------------------------------------------------------------------------
(* Properties of the running dashboard *)

NoData(f) == IF f = "get_total_products" THEN 10 ELSE <<>>

Called == lastCall.f # "none"

\* The operations that take the N of the controls
TopNOps == {"get_top_products", "get_seasonality_data", "analyze_stock"}

\* The run has called an operation with the N of its controls
PassedTopN == pc \in {"tab2", "tab3", "done"} /\ lastCall.f \in TopNOps

\* The part of C12 on the N passed: 2 <= N <= min(totalProducts, 100)
TopNPassedInRange ==
    PassedTopN => /\ lastCall.arg = top_n
                  /\ 2 <= lastCall.arg
                  /\ lastCall.arg <= Min(total_produtos, 100)

TopNPassedReached == PassedTopN /\ pc = "done" /\ total_produtos = 2 /\ lastCall.arg = 2

\* C12: for every value get_total_products returns, the controls have a
\* non-empty range from 2 to min(totalProducts, 50) (slider) and to
\* min(totalProducts, 100) (numeric input), and the N passed to the three
\* operations satisfies 2 <= N <= min(totalProducts, 100).
C12_TopNControls ==
    /\ pc = "controls" =>
            /\ \E n \in 2..50 : n <= total_produtos
            /\ \E n \in 2..100 : n <= total_produtos
            /\ SliderRange = {n \in 2..50 : n <= total_produtos}
            /\ InputRange = {n \in 2..100 : n <= total_produtos}
    /\ TopNPassedInRange

C7_MissingCredentialsStop ==
    /\ [](creds # AllCreds => pc \in {"idle", "start", "stopped"})
    /\ [][creds # AllCreds =>
            /\ conn' = conn /\ connAttempts' = connAttempts
            /\ lastCall' = lastCall /\ cache' = cache
            /\ (pc = "start" => pc' = "stopped")]_vars

C7_Witness == pc = "stopped" /\ Cardinality(creds) = 2 /\ conn = "unset" /\ ~Called

\* C8: with no refresh in between, a call with the argument of a result stored
\* less than 300 seconds ago returns that result and issues no query; a call
\* with an argument that has no stored result, or whose result is 300 seconds
\* old, runs the operation again, which issues the query (the process holding a
\* connection, as it does once a query was issued).
C8_CachedForTTL ==
    Called =>
        /\ Cardinality(lastCall.prior) <= 1
        /\ \A e \in lastCall.prior :
            e.age < 300 =>
                lastCall.hit /\ lastCall.val = e.val /\ ~lastCall.issued
                    /\ lastCall.age = e.age
        /\ (\A e \in lastCall.prior : e.age >= 300) =>
                /\ ~lastCall.hit
                /\ lastCall.issued <=> lastCall.connection = "ok"

C8_Witness ==
    /\ lastCall.f = "get_top_products"
    /\ lastCall.hit /\ lastCall.age = 150
    /\ lastCall.val \notin {o.val : o \in TryBlock(lastCall.f, lastCall.arg)}
    /\ \E e \in cache["get_top_products"] : e.arg # lastCall.arg /\ e.age = 300

\* C9: the refresh empties the stored results of all four operations and starts
\* a new run, and every operation that run calls is computed again (by a query,
\* the process holding a connection), none from a stored result.
C9_RefreshRecomputes ==
    /\ runKind = "click" => pc \notin {"tab1", "tab2", "tab3", "done"}
    /\ (runKind = "rerun" /\ pc \in {"start", "total"}) =>
            \A f \in Ops : cache[f] = {}
    /\ (runKind = "rerun" /\ pc \notin {"start", "total", "stopped"}) =>
            /\ Called
            /\ ~lastCall.hit /\ lastCall.prior = {}
            /\ lastCall.issued <=> lastCall.connection = "ok"

C9_Witness ==
    /\ runKind = "rerun" /\ pc = "done"
    /\ lastCall.f = "analyze_stock" /\ lastCall.issued /\ ~lastCall.failed
    /\ Len(lastCall.val) = 2

\* C10: the connection is attempted at most once, on the first call; every later
\* call returns that outcome; when the attempt failed every query operation
\* sees no connection and returns its default without raising.
C10_SingleConnectionAttempt ==
    /\ [](/\ connAttempts <= 1
          /\ connAttempts = 0 <=> conn = "unset"
          /\ Called => conn # "unset" /\ lastCall.connection = conn
          /\ (Called /\ conn = "none") =>
                /\ ~lastCall.issued /\ ~lastCall.escaped
                /\ lastCall.val = NoData(lastCall.f))
    /\ [][conn # "unset" => conn' = conn]_vars

C10_Witness ==
    /\ conn = "none" /\ connAttempts = 1
    /\ runKind = "rerun" /\ pc = "done"
    /\ lastCall.f = "analyze_stock" /\ ~lastCall.hit

====
